---- MODULE Spec2Model ----
(***************************************************************************)
(* Model of the catalog service: the GET /products query pipeline and the  *)
(* deterministic mock review generator (generateMockReviews).              *)
(*                                                                         *)
(* JavaScript numbers are IEEE-754 doubles.  The generator state can reach *)
(* 2^32-1 and its product with the multiplier 2^62, so the arithmetic is   *)
(* carried out on 16-bit limbs and rounded to a 53-bit significand the way *)
(* the double operations round it.                                         *)
(***************************************************************************)
EXTENDS Integers, Sequences, FiniteSets, TLC

VARIABLES
    \* ---- generateMockReviews (one call at a time, step by step) ----
    rpc,           \* "idle" | "loop" | "returned" | "threw"
    productId,     \* argument: sequence of one-character strings
    limit,         \* argument: integer
    filterRating,  \* argument: a one-element sequence <<n>>, or <<>> for null
    i,             \* loop index of the for statement
    randomIndex,   \* the running generator state (a JS number)
    reviews,       \* the array being built
    prev,          \* outcome of the preceding call when it had the same arguments
    \* ---- GET /products ----
    store,         \* the product collection: a set of product ids
    qpc,           \* "idle" | "counting" | "responded" | "error500"
    req,           \* req.query after validation
    products,      \* result of Product.find(...).sort().limit().skip().lean()
    pagination,    \* the pagination object of the response
    \* ---- one product document and its stock methods ----
    stock,         \* this.stock of the document in memory
    inStock,       \* this.inStock of the document in memory
    dbStock,       \* stock of the persisted copy
    dbInStock,     \* inStock of the persisted copy
    saved,         \* outcome of the last save(): "none" | "ok" | "rejected"
    op             \* the stock method called last, or "none"

rvars == <<rpc, productId, limit, filterRating, i, randomIndex, reviews, prev>>
qvars == <<store, qpc, req, products, pagination>>
svars == <<stock, inStock, dbStock, dbInStock, saved, op>>
vars == <<rpc, productId, limit, filterRating, i, randomIndex, reviews, prev,
          store, qpc, req, products, pagination,
          stock, inStock, dbStock, dbInStock, saved, op>>

-----------------------------------------------------------------------------
(* Bounds of the model *)

MaxLimit == 3

-----------------------------------------------------------------------------
(* JS numbers of the generator.  A number is NaN or a signed integer of    *)
(* magnitude hi * 2^16 + lo < 2^32.                                         *)

Base == 256 * 256

Num(neg, hi, lo) == [nan |-> FALSE, neg |-> neg, hi |-> hi, lo |-> lo]

NaN == [nan |-> TRUE, neg |-> FALSE, hi |-> 0, lo |-> 0]

Zero == Num(FALSE, 0, 0)

LcgMultiplier == 1103515245

LcgIncrement == 12345

\* A non-negative integer below 2^64 as four 16-bit limbs.
Big(d3, d2, d1, d0) == [d3 |-> d3, d2 |-> d2, d1 |-> d1, d0 |-> d0]

\* Exact product (hi * 2^16 + lo) * 1103515245.
BigMul(hi, lo) ==
    LET ah  == LcgMultiplier \div Base
        al  == LcgMultiplier % Base
        p0  == lo * al
        p1a == lo * ah
        p1b == hi * al
        p2  == hi * ah
        s1  == (p1a % Base) + (p1b % Base) + (p0 \div Base)
        s2  == (p1a \div Base) + (p1b \div Base) + (p2 % Base) + (s1 \div Base)
        s3  == (p2 \div Base) + (s2 \div Base)
    IN  Big(s3, s2 % Base, s1 % Base, p0 % Base)

\* b + s for 0 <= s <= 2^16.
BigAddSmall(b, s) ==
    LET s0 == b.d0 + s
        s1 == b.d1 + (s0 \div Base)
        s2 == b.d2 + (s1 \div Base)
        s3 == b.d3 + (s2 \div Base)
    IN  Big(s3, s2 % Base, s1 % Base, s0 % Base)

BigGeSmall(b, s) == b.d3 > 0 \/ b.d2 > 0 \/ b.d1 > 0 \/ b.d0 >= s

\* b - s for 0 <= s < 2^16 and b >= s.
BigSubSmall(b, s) ==
    LET w0 == IF b.d0 < s THEN 1 ELSE 0
        w1 == IF b.d1 < w0 THEN 1 ELSE 0
        w2 == IF b.d2 < w1 THEN 1 ELSE 0
    IN  Big(b.d3 - w2, (b.d2 + Base - w1) % Base, (b.d1 + Base - w0) % Base,
            (b.d0 + Base - s) % Base)

BitLen16(n) == IF n = 0 THEN 0 ELSE CHOOSE k \in 1..16 : 2^(k-1) <= n /\ n < 2^k

BigBitLen(b) ==
    IF b.d3 > 0 THEN 48 + BitLen16(b.d3)
    ELSE IF b.d2 > 0 THEN 32 + BitLen16(b.d2)
    ELSE IF b.d1 > 0 THEN 16 + BitLen16(b.d1)
    ELSE BitLen16(b.d0)

\* The double nearest to the integer b (round to nearest, ties to even):
\* a double keeps the 53 leading bits.
RoundToDouble(b) ==
    LET n == BigBitLen(b)
    IN  IF n <= 53 THEN b
        ELSE LET q    == 2^(n - 53)
                 r    == b.d0 % q
                 down == [b EXCEPT !.d0 = b.d0 - r]
                 odd  == (b.d0 \div q) % 2 = 1
             IN  IF 2 * r > q \/ (2 * r = q /\ odd)
                 THEN BigAddSmall(down, q)
                 ELSE down

\* (v & 0x7fffffff) for the integer v = (IF neg THEN -b ELSE b): ToInt32
\* reduces v modulo 2^32 (two's complement) and the mask keeps 31 bits.
MaskInt31(neg, b) ==
    IF ~neg \/ (b.d1 = 0 /\ b.d0 = 0)
    THEN Num(FALSE, b.d1 % (Base \div 2), b.d0)
    ELSE Num(FALSE,
             (Base - 1 - b.d1 + (IF b.d0 = 0 THEN 1 ELSE 0)) % (Base \div 2),
             (Base - b.d0) % Base)

\* randomIndex = (randomIndex * 1103515245 + 12345) & 0x7fffffff
LcgStep(x) ==
    IF x.nan THEN Zero
    ELSE LET prod == RoundToDouble(BigMul(x.hi, x.lo))
         IN  IF ~x.neg
             THEN MaskInt31(FALSE, RoundToDouble(BigAddSmall(prod, LcgIncrement)))
             ELSE IF BigGeSmall(prod, LcgIncrement)
                  THEN MaskInt31(TRUE, RoundToDouble(BigSubSmall(prod, LcgIncrement)))
                  ELSE Num(FALSE, 0, LcgIncrement - prod.d0)

-----------------------------------------------------------------------------
(* Strings are sequences of one-character strings. *)

HexDigits == <<"0", "1", "2", "3", "4", "5", "6", "7", "8", "9",
               "a", "b", "c", "d", "e", "f">>

HexUpper == <<"A", "B", "C", "D", "E", "F">>

IsHexDigit(c) ==
    \/ \E k \in 1..Len(HexDigits) : HexDigits[k] = c
    \/ \E k \in 1..Len(HexUpper) : HexUpper[k] = c

HexVal(c) ==
    IF \E k \in 1..Len(HexDigits) : HexDigits[k] = c
    THEN (CHOOSE k \in 1..Len(HexDigits) : HexDigits[k] = c) - 1
    ELSE (CHOOSE k \in 1..Len(HexUpper) : HexUpper[k] = c) + 9

\* s.slice(-n): the last n characters, the whole string when it is shorter.
SliceLast(s, n) == IF Len(s) <= n THEN s ELSE SubSeq(s, Len(s) - n + 1, Len(s))

Drop(s, n) == SubSeq(s, n + 1, Len(s))

RECURSIVE SkipSpaces(_)
SkipSpaces(s) == IF s # <<>> /\ s[1] = " " THEN SkipSpaces(Tail(s)) ELSE s

\* Accumulate the leading hex digits of s onto the value hi * 2^16 + lo;
\* any is TRUE once a digit was read.
RECURSIVE HexPrefix(_, _, _, _)
HexPrefix(s, hi, lo, any) ==
    IF s # <<>> /\ IsHexDigit(s[1])
    THEN LET w == lo * 16 + HexVal(s[1])
         IN  HexPrefix(Tail(s), hi * 16 + (w \div Base), w % Base, TRUE)
    ELSE [any |-> any, hi |-> hi, lo |-> lo]

\* parseInt(s, 16): leading white space, an optional sign, an optional 0x,
\* then the longest run of hex digits; NaN when there is none.
parseInt16(s) ==
    LET t      == SkipSpaces(s)
        signed == t # <<>> /\ (t[1] = "-" \/ t[1] = "+")
        neg    == t # <<>> /\ t[1] = "-"
        u      == IF signed THEN Tail(t) ELSE t
        v      == IF Len(u) >= 2 /\ u[1] = "0" /\ (u[2] = "x" \/ u[2] = "X")
                  THEN Drop(u, 2) ELSE u
        d      == HexPrefix(v, 0, 0, FALSE)
    IN  IF d.any THEN Num(neg, d.hi, d.lo) ELSE NaN

SeedChars == 8

\* Mutant of SeedOf: the generator state is kept from one call to the next.
SeedKept(pid) ==
    IF rpc = "idle" THEN parseInt16(SliceLast(pid, SeedChars)) ELSE randomIndex

\* const seed = productId.slice(-8); let randomIndex = parseInt(seed, 16);
SeedOf(pid) == parseInt16(SliceLast(pid, SeedChars))

\* x % m for a number x that is not NaN: the remainder has the sign of x.
JsMod(x, m) ==
    LET r == ((x.hi % m) * (Base % m) + x.lo) % m
    IN  IF x.neg THEN 0 - r ELSE r

\* (x + k) % m for a number x that is not NaN and 0 <= k < 2^16.
JsAddMod(x, k, m) ==
    LET r == ((x.hi % m) * (Base % m) + x.lo) % m
    IN  IF ~x.neg THEN (r + k) % m
        ELSE IF x.hi > 0 \/ x.lo >= k
             THEN 0 - ((r + m - (k % m)) % m)
             ELSE (k - x.lo) % m

-----------------------------------------------------------------------------
(* generateMockReviews *)

\* ratingWeights = [0.05, 0.1, 0.15, 0.3, 0.4], in percent.  The running sums
\* of the doubles are 0.05, 0.15000000000000002, 0.30000000000000004,
\* 0.6000000000000001 and 1.0000000000000002, so ratingRand = p / 100 compares
\* <= with them exactly as p compares with 5, 15, 30, 60 and 100.
ratingWeights == <<5, 10, 15, 30, 40>>

\* Mutant of PickRating: < in place of <=.
RECURSIVE PickRatingStrict(_, _, _)
PickRatingStrict(p, r, cumulative) ==
    IF r > Len(ratingWeights) THEN 5
    ELSE IF p < cumulative + ratingWeights[r] THEN r
    ELSE PickRatingStrict(p, r + 1, cumulative + ratingWeights[r])

RECURSIVE PickRating(_, _, _)
PickRating(p, r, cumulative) ==
    IF r > Len(ratingWeights) THEN 5
    ELSE IF p <= cumulative + ratingWeights[r] THEN r
    ELSE PickRating(p, r + 1, cumulative + ratingWeights[r])

\* The rating computed from the state; every comparison with NaN is false,
\* which leaves the initial rating 5.
RatingOf(x) == IF x.nan THEN 5 ELSE PickRating(JsMod(x, 100), 1, 0)

NoFilter == <<>>

\* Mutant of FilterRejects: the comparison inverted.
FilterRejectsEqual(f, rating) == f # NoFilter /\ f[1] # 0 /\ rating = f[1]

\* if (filterRating && rating !== filterRating): null and 0 are falsy.
FilterRejects(f, rating) == f # NoFilter /\ f[1] # 0 /\ rating # f[1]

TemplateCount == 5

ReviewerCount == 15

DaysWindow == 180

\* array[k] for a JS number k: undefined (<<>>) unless 0 <= k < n.
Element(k, n) == IF k >= 0 /\ k < n THEN <<k>> ELSE <<>>

\* The object pushed for state x at loop index k (x is not NaN).
ReviewRecord(pid, k, x) ==
    [id       |-> [productId |-> pid, index |-> k],
     rating   |-> RatingOf(x),
     comment  |-> Element(JsMod(x, TemplateCount), TemplateCount),
     reviewer |-> Element(JsAddMod(x, k, ReviewerCount), ReviewerCount),
     daysAgo  |-> JsMod(x, DaysWindow),
     verified |-> JsMod(x, 4) # 0,
     helpful  |-> IF JsMod(x, 20) - 5 > 0 THEN JsMod(x, 20) - 5 ELSE 0]

\* Arguments of the calls the model makes.
ProductIds ==
    { <<"6", "5", "a", "b", "c", "d", "e", "f", "0", "1">>,
      <<"0", "0", "0", "0", "0", "0", "0", "0">>,
      <<"f", "f", "f", "f", "f", "f", "f", "f">>,
      <<"z", "z", "z", "z", "z", "z", "z", "z">>,
      <<"1", "2", "z", "z", "z", "z", "z", "z">>,
      <<"-", "1", "2", "3", "4", "5", "6", "7">>,
      <<" ", "0", "x", "1", "A">>,
      <<>> }

Limits == (0 - 1) .. MaxLimit

FilterRatings == {NoFilter} \cup { <<n>> : n \in (0 - 1) .. 6 }

\* No call is in progress and no request was received.
ReviewsInit ==
    /\ rpc = "idle"
    /\ productId = <<>>
    /\ limit = 0
    /\ filterRating = NoFilter
    /\ i = 0
    /\ randomIndex = NaN
    /\ reviews = <<>>
    /\ prev = <<>>
    /\ store = {}
    /\ qpc = "idle"
    /\ req = <<>>
    /\ products = <<>>
    /\ pagination = <<>>
    /\ stock = 0
    /\ inStock = FALSE
    /\ dbStock = 0
    /\ dbInStock = FALSE
    /\ saved = "none"
    /\ op = "none"

\* Entry of generateMockReviews(productId, productName, limit, filterRating):
\* every local starts afresh.
Call(pid, lim, f) ==
    /\ rpc \in {"idle", "returned", "threw"}
    /\ prev' = IF rpc # "idle" /\ pid = productId /\ lim = limit /\ f = filterRating
               THEN <<[outcome |-> rpc, reviews |-> reviews]>>
               ELSE <<>>
    /\ productId' = pid
    /\ limit' = lim
    /\ filterRating' = f
    /\ randomIndex' = SeedOf(pid)
    /\ i' = 0
    /\ reviews' = <<>>
    /\ rpc' = "loop"
    /\ UNCHANGED <<qvars, svars>>

\* Mutant of NextIndex: the index is not advanced.
NextIndexStuck(k) == k

\* The loop index after one pass of the body: i++ runs after continue too.
NextIndex(k) == k + 1

\* Mutant of LoopContinues: the guard off by one.
LoopContinuesInclusive(k, lim) == k <= lim

\* for (let i = 0; i < limit; i++)
LoopContinues(k, lim) == k < lim

\* if (filterRating && rating !== filterRating) { advance; continue; }
Mismatch ==
    /\ rpc = "loop"
    /\ LoopContinues(i, limit)
    /\ FilterRejects(filterRating, RatingOf(randomIndex))
    /\ randomIndex' = LcgStep(randomIndex)
    /\ i' = NextIndex(i)
    /\ UNCHANGED <<rpc, productId, limit, filterRating, reviews, prev>>
    /\ UNCHANGED <<qvars, svars>>

\* reviews.push({...}); advance.
Push ==
    /\ rpc = "loop"
    /\ LoopContinues(i, limit)
    /\ ~FilterRejects(filterRating, RatingOf(randomIndex))
    /\ ~randomIndex.nan
    /\ reviews' = Append(reviews, ReviewRecord(productId, i, randomIndex))
    /\ randomIndex' = LcgStep(randomIndex)
    /\ i' = NextIndex(i)
    /\ UNCHANGED <<rpc, productId, limit, filterRating, prev>>
    /\ UNCHANGED <<qvars, svars>>

\* With randomIndex NaN, daysAgo is NaN, setDate(NaN) makes the date invalid
\* and reviewDate.toISOString() throws a RangeError.
Throw ==
    /\ rpc = "loop"
    /\ LoopContinues(i, limit)
    /\ ~FilterRejects(filterRating, RatingOf(randomIndex))
    /\ randomIndex.nan
    /\ rpc' = "threw"
    /\ UNCHANGED <<productId, limit, filterRating, i, randomIndex, reviews, prev>>
    /\ UNCHANGED <<qvars, svars>>

\* return reviews;
Return ==
    /\ rpc = "loop"
    /\ ~LoopContinues(i, limit)
    /\ rpc' = "returned"
    /\ UNCHANGED <<productId, limit, filterRating, i, randomIndex, reviews, prev>>
    /\ UNCHANGED <<qvars, svars>>

CallAny == \E pid \in ProductIds, lim \in Limits, f \in FilterRatings : Call(pid, lim, f)

ReviewsNext == CallAny \/ Mismatch \/ Push \/ Throw \/ Return

SpecReviews == ReviewsInit /\ [][ReviewsNext]_vars

\* The function runs synchronously: once entered, the for loop keeps stepping
\* until it returns or throws.  Every step taken inside the loop either
\* advances i (the i++ of the for statement) or leaves the loop, and one of
\* Mismatch, Push, Throw, Return is enabled in every state with rpc = "loop",
\* so weak fairness on LoopAdvances is weak fairness on the loop's steps.
LoopAdvances ==
    /\ rpc = "loop"
    /\ rpc' \in {"loop", "returned", "threw"}
    /\ i' \in {i, i + 1}
    /\ <<rpc', i'>> # <<rpc, i>>

SpecReviewsFair == ReviewsInit /\ [][ReviewsNext]_vars /\ WF_<<rpc, i>>(LoopAdvances)

\* ---- calls over a range of seeds ----

MaxSeedLow == 199

\* The 4 hex digits of n, 0 <= n < 2^16.
Hex4(n) ==
    <<HexDigits[((n \div 4096) % 16) + 1], HexDigits[((n \div 256) % 16) + 1],
      HexDigits[((n \div 16) % 16) + 1], HexDigits[(n % 16) + 1]>>

\* Product ids whose last 8 characters are hex digits: seeds hi * 2^16 + lo.
SeedHighs == {0, 1, Base \div 2 - 1, Base - 1}

SeededIds == { Hex4(hi) \o Hex4(lo) : hi \in SeedHighs, lo \in 0..MaxSeedLow }

\* One call per behaviour, with a hex product id, a positive limit and no
\* filter or the filter 4.
CallSeeded ==
    /\ rpc = "idle"
    /\ \E pid \in SeededIds, lim \in 1..MaxLimit, f \in {NoFilter, <<4>>} : Call(pid, lim, f)

SeedsNext == CallSeeded \/ Mismatch \/ Push \/ Return

SpecSeeds == ReviewsInit /\ [][SeedsNext]_vars

-----------------------------------------------------------------------------
(* GET /products *)

MaxPageSize == 2

MaxPage == 3

Uppers == <<"A", "B", "C", "D", "E", "F", "G", "H", "I", "J", "K", "L", "M",
            "N", "O", "P", "Q", "R", "S", "T", "U", "V", "W", "X", "Y", "Z">>

Lowers == <<"a", "b", "c", "d", "e", "f", "g", "h", "i", "j", "k", "l", "m",
            "n", "o", "p", "q", "r", "s", "t", "u", "v", "w", "x", "y", "z">>

Lower(c) ==
    IF \E k \in 1..Len(Uppers) : Uppers[k] = c
    THEN Lowers[CHOOSE k \in 1..Len(Uppers) : Uppers[k] = c]
    ELSE c

\* Code-unit order of the characters the model uses (the collection has no
\* collation, so strings sort by code unit).
CodeOrder == <<" ", "(", ".">> \o Uppers \o Lowers

Code(c) == CHOOSE k \in 1..Len(CodeOrder) : CodeOrder[k] = c

RECURSIVE StrLess(_, _)
StrLess(a, b) ==
    IF b = <<>> THEN FALSE
    ELSE IF a = <<>> THEN TRUE
    ELSE IF Code(a[1]) # Code(b[1]) THEN Code(a[1]) < Code(b[1])
    ELSE StrLess(Tail(a), Tail(b))

\* new RegExp(pattern, 'i') throws a SyntaxError on an unterminated group.
RegExpValid(pattern) == \A k \in 1..Len(pattern) : pattern[k] # "("

\* One pattern character against one text character under the i flag:
\* "." is the wildcard, every other character of the model stands for itself.
AtomMatches(pc, tc) == pc = "." \/ Lower(pc) = Lower(tc)

\* new RegExp(pattern, 'i').test(text): an unanchored match.
RegExpTest(pattern, text) ==
    \E off \in 0..(Len(text) - Len(pattern)) :
        \A k \in 1..Len(pattern) : AtomMatches(pattern[k], text[off + k])

\* The product documents that can be in the collection.
Catalog ==
    [n \in 1..4 |->
        CASE n = 1 -> [name |-> <<"M", "a", "c">>, description |-> <<"p", "r", "o">>,
                       category |-> <<"l", "a", "p", "t", "o", "p", "s">>,
                       price |-> 3, rating |-> 5, createdAt |-> 1]
          [] n = 2 -> [name |-> <<"T", "a", "b">>, description |-> <<"t", "o", "p">>,
                       category |-> <<"t", "a", "b", "l", "e", "t", "s">>,
                       price |-> 1, rating |-> 4, createdAt |-> 2]
          [] n = 3 -> [name |-> <<"m", "a", "t">>, description |-> <<"a", " ", "t", "i", "b">>,
                       category |-> <<"h", "o", "m", "e">>,
                       price |-> 2, rating |-> 4, createdAt |-> 2]
          [] n = 4 -> [name |-> <<"Z", "e", "n">>, description |-> <<"l", "a", "p">>,
                       category |-> <<"l", "a", "p", "t", "o", "p", "s">>,
                       price |-> 3, rating |-> 3, createdAt |-> 3]]

Absent == <<>>

DefaultLimit == 20

\* The validated query strings the model sends, already parsed.
Requests ==
    [category  : {Absent, <<<<"L", "A", "P">>>>, <<<<"t", "a", "b", "l", "e", "t", "s">>>>},
     minPrice  : {Absent, <<0>>, <<2>>},
     maxPrice  : {Absent, <<2>>},
     minRating : {Absent, <<4>>},
     search    : {Absent, <<<<>>>>, <<<<"m", "a">>>>, <<<<"t", ".", "b">>>>, <<<<"(">>>>},
     sortBy    : {Absent, <<"price">>, <<"rating">>, <<"name">>},
     sortOrder : {Absent, <<"asc">>},
     limit     : {Absent} \cup { <<n>> : n \in 1..MaxPageSize },
     page      : {Absent} \cup { <<n>> : n \in 1..MaxPage }]

\* Destructuring defaults of the handler.
OrDefault(param, default) == IF param = Absent THEN default ELSE param[1]

LimitOf(q) == OrDefault(q.limit, DefaultLimit)

PageOf(q) == OrDefault(q.page, 1)

SortByOf(q) == OrDefault(q.sortBy, "createdAt")

SortOrderOf(q) == OrDefault(q.sortOrder, "desc")

\* if (category), if (search): a string parameter is used when it is present
\* and, after trim(), not the empty string.
Truthy(param) == param # Absent /\ param[1] # <<>>

\* Building the query throws when a pattern is not a regular expression.
QueryBuilds(q) ==
    /\ Truthy(q.category) => RegExpValid(q.category[1])
    /\ Truthy(q.search) => RegExpValid(q.search[1])

\* The documents the query object selects.  A validated numeric parameter is
\* a non-empty string, so it is truthy whenever it is present ("0" included).
QueryMatches(q, d) ==
    /\ Truthy(q.category) => RegExpTest(q.category[1], d.category)
    /\ q.minPrice # Absent => d.price >= q.minPrice[1]
    /\ q.maxPrice # Absent => d.price <= q.maxPrice[1]
    /\ q.minRating # Absent => d.rating >= q.minRating[1]
    /\ Truthy(q.search) =>
          \/ RegExpTest(q.search[1], d.name)
          \/ RegExpTest(q.search[1], d.description)
          \/ RegExpTest(q.search[1], d.category)

Matching(s, q) == { n \in s : QueryMatches(q, Catalog[n]) }

\* sort[sortBy] = sortOrder === 'desc' ? -1 : 1
SortDirection(q) == IF SortOrderOf(q) = "desc" THEN 0 - 1 ELSE 1

\* d1 may come before d2 under the sort document {key: dir}.
KeyLess(key, d1, d2) ==
    CASE key = "price"  -> d1.price < d2.price
      [] key = "rating" -> d1.rating < d2.rating
      [] key = "name"   -> StrLess(d1.name, d2.name)
      [] OTHER          -> d1.createdAt < d2.createdAt

MayPrecede(key, dir, d1, d2) ==
    IF dir = 1 THEN ~KeyLess(key, d2, d1) ELSE ~KeyLess(key, d1, d2)

\* Every order the store may return the set s in: documents with equal keys
\* come in an order the store chooses.
SortedOrders(s, key, dir) ==
    { o \in [1..Cardinality(s) -> s] :
        /\ \A a, b \in 1..Cardinality(s) : a # b => o[a] # o[b]
        /\ \A a \in 1..(Cardinality(s) - 1) :
              MayPrecede(key, dir, Catalog[o[a]], Catalog[o[a + 1]]) }

\* Mutant of SkipOf: pages counted from 0.
SkipFromPageZero(q) == PageOf(q) * LimitOf(q)

\* const skip = (parseInt(page) - 1) * parseInt(limit);
SkipOf(q) == (PageOf(q) - 1) * LimitOf(q)

\* cursor.skip(skip).limit(n) of an ordered result.
Window(o, skip, n) ==
    IF skip >= Len(o) THEN <<>>
    ELSE SubSeq(o, skip + 1, IF skip + n < Len(o) THEN skip + n ELSE Len(o))

\* Mutant of CeilDiv: Math.floor in place of Math.ceil.
FloorDiv(a, b) == a \div b

\* Math.ceil(a / b) for integers a >= 0, b >= 1.
CeilDiv(a, b) == IF a % b = 0 THEN a \div b ELSE (a \div b) + 1

\* The pagination object of the response.
PaginationOf(q, totalProducts) ==
    LET totalPages == CeilDiv(totalProducts, LimitOf(q))
    IN  [currentPage   |-> PageOf(q),
         totalPages    |-> totalPages,
         totalProducts |-> totalProducts,
         hasNextPage   |-> PageOf(q) < totalPages,
         hasPrevPage   |-> PageOf(q) > 1]

\* A validated request arrives at a collection of any content; no review
\* call is in progress.
ProductsInit ==
    /\ store \in SUBSET (DOMAIN Catalog)
    /\ req \in Requests
    /\ qpc = "idle"
    /\ products = <<>>
    /\ pagination = <<>>
    /\ rpc = "idle"
    /\ productId = <<>>
    /\ limit = 0
    /\ filterRating = NoFilter
    /\ i = 0
    /\ randomIndex = NaN
    /\ reviews = <<>>
    /\ prev = <<>>
    /\ stock = 0
    /\ inStock = FALSE
    /\ dbStock = 0
    /\ dbInStock = FALSE
    /\ saved = "none"
    /\ op = "none"

\* The handler up to its first await: build the query and the sort, then
\* Product.find(query).sort(sort).limit(limit).skip(skip).lean().
FindProducts ==
    /\ qpc = "idle"
    /\ QueryBuilds(req)
    /\ \E o \in SortedOrders(Matching(store, req), SortByOf(req), SortDirection(req)) :
          products' = [k \in DOMAIN Window(o, SkipOf(req), LimitOf(req)) |->
                          Catalog[Window(o, SkipOf(req), LimitOf(req))[k]]]
    /\ qpc' = "counting"
    /\ UNCHANGED <<store, req, pagination>>
    /\ UNCHANGED <<rvars, svars>>

\* new RegExp(...) throws; the catch block answers 500.
QueryFails ==
    /\ qpc = "idle"
    /\ ~QueryBuilds(req)
    /\ qpc' = "error500"
    /\ UNCHANGED <<store, req, products, pagination>>
    /\ UNCHANGED <<rvars, svars>>

\* Product.countDocuments(query), then res.json({products, pagination, ...}).
CountAndRespond ==
    /\ qpc = "counting"
    /\ pagination' = PaginationOf(req, Cardinality(Matching(store, req)))
    /\ qpc' = "responded"
    /\ UNCHANGED <<store, req, products>>
    /\ UNCHANGED <<rvars, svars>>

ProductsNext == FindProducts \/ QueryFails \/ CountAndRespond

SpecProducts == ProductsInit /\ [][ProductsNext]_vars

-----------------------------------------------------------------------------
(* GET /products while the seeding and clearing scripts write to the       *)
(* collection.  The handler awaits twice (find, then countDocuments); a    *)
(* write can be applied by the database between the two.                   *)

\* clearDatabase(): "clear all products".
ClearDatabase ==
    /\ store # {}
    /\ store' = {}
    /\ UNCHANGED <<qpc, req, products, pagination>>
    /\ UNCHANGED <<rvars, svars>>

\* seedDatabase(): the collection holds the sample products.
SeedDatabase ==
    /\ store # DOMAIN Catalog
    /\ store' = DOMAIN Catalog
    /\ UNCHANGED <<qpc, req, products, pagination>>
    /\ UNCHANGED <<rvars, svars>>

\* Requests sorted by name, with or without a category filter, and the
\* search that makes new RegExp throw.
ConcurrentRequests ==
    { r \in Requests :
        /\ r.minPrice = Absent
        /\ r.maxPrice = Absent
        /\ r.minRating = Absent
        /\ r.search \in {Absent, <<<<"(">>>>}
        /\ r.sortBy = <<"name">>
        /\ r.sortOrder = <<"asc">> }

\* A request arrives at a collection that is empty or seeded.
ConcurrentInit ==
    /\ store \in {{}, DOMAIN Catalog}
    /\ req \in ConcurrentRequests
    /\ qpc = "idle"
    /\ products = <<>>
    /\ pagination = <<>>
    /\ rpc = "idle"
    /\ productId = <<>>
    /\ limit = 0
    /\ filterRating = NoFilter
    /\ i = 0
    /\ randomIndex = NaN
    /\ reviews = <<>>
    /\ prev = <<>>
    /\ stock = 0
    /\ inStock = FALSE
    /\ dbStock = 0
    /\ dbInStock = FALSE
    /\ saved = "none"
    /\ op = "none"

ConcurrentNext ==
    FindProducts \/ QueryFails \/ CountAndRespond \/ ClearDatabase \/ SeedDatabase

SpecConcurrent == ConcurrentInit /\ [][ConcurrentNext]_vars

-----------------------------------------------------------------------------
(* The stock methods of a product document (productSchema.methods).        *)

MaxStock == 12

MaxQty == 6

Quantities == (0 - MaxQty)..MaxQty

MathMax(a, b) == IF a >= b THEN a ELSE b

\* stock: { min: [0, 'Stock cannot be negative'] }
StockValid(s) == s >= 0

\* this.stock = s; this.inStock = this.stock > 0; return this.save();
\* save() validates the document against the schema first: an invalid
\* document is rejected and the persisted copy stays as it was.  A valid one
\* goes through the pre('save') hook (this.inStock = this.stock > 0) and is
\* written.
AssignAndSave(name, s) ==
    /\ stock' = s
    /\ inStock' = (s > 0)
    /\ IF StockValid(s)
       THEN /\ dbStock' = s
            /\ dbInStock' = (s > 0)
            /\ saved' = "ok"
       ELSE /\ UNCHANGED <<dbStock, dbInStock>>
            /\ saved' = "rejected"
    /\ op' = name
    /\ UNCHANGED <<rvars, qvars>>

\* this.stock = Math.max(0, quantity)
updateStock ==
    \E q \in Quantities :
        /\ MathMax(0, q) <= MaxStock
        /\ AssignAndSave("updateStock", MathMax(0, q))

\* this.stock += quantity
addToStock ==
    \E q \in Quantities :
        /\ stock + q \in (0 - MaxStock)..MaxStock
        /\ AssignAndSave("addToStock", stock + q)

\* this.stock = Math.max(0, this.stock - quantity)
removeFromStock ==
    \E q \in Quantities :
        /\ stock - q <= MaxStock
        /\ AssignAndSave("removeFromStock", MathMax(0, stock - q))

\* A document as it was last saved: stock >= 0 and inStock set by the hook.
StockInit ==
    /\ stock \in 0..MaxStock
    /\ inStock = (stock > 0)
    /\ dbStock = stock
    /\ dbInStock = inStock
    /\ saved = "none"
    /\ op = "none"
    /\ rpc = "idle"
    /\ productId = <<>>
    /\ limit = 0
    /\ filterRating = NoFilter
    /\ i = 0
    /\ randomIndex = NaN
    /\ reviews = <<>>
    /\ prev = <<>>
    /\ store = {}
    /\ qpc = "idle"
    /\ req = <<>>
    /\ products = <<>>
    /\ pagination = <<>>

StockNext == updateStock \/ addToStock \/ removeFromStock

SpecStock == StockInit /\ [][StockNext]_vars

-----------------------------------------------------------------------------
(* Properties of GET /products (specification SpecProducts) *)

Answered == qpc \in {"counting", "responded"}

\* text contains s, ignoring case.
ContainsIgnoreCase(text, s) ==
    \E off \in 0..(Len(text) - Len(s)) :
        \A k \in 1..Len(s) : Lower(s[k]) = Lower(text[off + k])

\* C1: every product of the response satisfies every supplied filter: its
\* category contains the category parameter ignoring case, its price lies
\* within the supplied bounds, its rating is at least minRating, and its
\* name, description or category contains the search string ignoring case.
C1_AllFiltersHold ==
    Answered =>
        \A k \in 1..Len(products) :
            LET d == products[k]
            IN  /\ req.category # Absent => ContainsIgnoreCase(d.category, req.category[1])
                /\ req.minPrice # Absent => d.price >= req.minPrice[1]
                /\ req.maxPrice # Absent => d.price <= req.maxPrice[1]
                /\ req.minRating # Absent => d.rating >= req.minRating[1]
                /\ req.search # Absent =>
                      \/ ContainsIgnoreCase(d.name, req.search[1])
                      \/ ContainsIgnoreCase(d.description, req.search[1])
                      \/ ContainsIgnoreCase(d.category, req.search[1])

\* C2: in every response totalPages is the ceiling of totalProducts / limit
\* (the least n with n * limit >= totalProducts), hasNextPage is
\* page < totalPages, hasPrevPage is page > 1 and currentPage is page.
C2_PaginationDerived ==
    qpc = "responded" =>
        LET n == pagination.totalPages
            t == pagination.totalProducts
        IN  /\ n * LimitOf(req) >= t
            /\ (n - 1) * LimitOf(req) < t
            /\ pagination.hasNextPage = (PageOf(req) < n)
            /\ pagination.hasPrevPage = (PageOf(req) > 1)
            /\ pagination.currentPage = PageOf(req)

\* A response with no matching product on a page beyond the last one.
C2_Witness ==
    /\ qpc = "responded"
    /\ pagination.totalProducts = 0
    /\ pagination.totalPages = 0
    /\ pagination.currentPage = 2

\* d1 comes strictly before d2 in the requested order.
StrictlyBefore(d1, d2) ==
    IF SortOrderOf(req) = "desc"
    THEN KeyLess(SortByOf(req), d2, d1)
    ELSE KeyLess(SortByOf(req), d1, d2)

\* C3: the products returned are the elements at positions
\* (page-1)*limit .. (page-1)*limit + limit - 1 of the matching products
\* ordered by sortBy in direction sortOrder: they are distinct matching
\* products, at most limit of them, as many as the matches leave from that
\* position on, each standing at a position its key allows, consecutive ones
\* in order, and none when (page-1)*limit >= the number of matches.
C3_PageOfSortedMatches ==
    Answered =>
        LET matches == { Catalog[n] : n \in Matching(store, req) }
            first   == (PageOf(req) - 1) * LimitOf(req)
            left    == Cardinality(matches) - first
        IN  /\ Len(products) <= LimitOf(req)
            /\ Len(products) = (IF left <= 0 THEN 0
                                ELSE IF left < LimitOf(req) THEN left ELSE LimitOf(req))
            /\ first >= Cardinality(matches) => products = <<>>
            /\ \A k \in 1..Len(products) : products[k] \in matches
            /\ \A k, j \in 1..Len(products) : k # j => products[k] # products[j]
            /\ \A k \in 1..(Len(products) - 1) : ~StrictlyBefore(products[k + 1], products[k])
            /\ \A k \in 1..Len(products) :
                  /\ Cardinality({ d \in matches : StrictlyBefore(d, products[k]) }) < first + k
                  /\ Cardinality({ d \in matches : ~StrictlyBefore(products[k], d) }) >= first + k

\* A full second page of four matches sorted by rating, where the two
\* products rated 4 stand on either side of the page boundary.
C3_Witness ==
    /\ qpc = "responded"
    /\ PageOf(req) = 2
    /\ SortByOf(req) = "rating"
    /\ Len(products) = 2
    /\ pagination.totalProducts = 4
    /\ products[1].rating = 4

-----------------------------------------------------------------------------
(* Properties of generateMockReviews (specification SpecReviews) *)

\* C4: the sequence returned has between 0 and limit records, and none when
\* limit <= 0.
C4_LengthWithinLimit ==
    rpc = "returned" =>
        /\ Len(reviews) <= (IF limit > 0 THEN limit ELSE 0)
        /\ limit <= 0 => reviews = <<>>

\* A call that returned as many records as the limit allows.
C4_Witness == rpc = "returned" /\ limit >= 2 /\ Len(reviews) = limit

\* The filter argument takes effect: the code tests it for truthiness, which
\* null and 0 fail.
FilterSupplied == filterRating # NoFilter /\ filterRating[1] # 0

C6_Deterministic ==
    (rpc \in {"returned", "threw"} /\ prev # <<>>) =>
        prev[1] = [outcome |-> rpc, reviews |-> reviews]

\* A repeated call that returned several records.
C6_Witness == rpc = "returned" /\ prev # <<>> /\ Len(reviews) >= 2

\* C7: a ratingFilter outside 1..5 makes the call return the empty sequence.
C7_OutOfRangeFilterEmpty ==
    (rpc = "returned" /\ filterRating # NoFilter /\ filterRating[1] \notin 1..5) =>
        reviews = <<>>

\* The last 8 characters of the productId are not 8 hex digits.
NotHexSeed ==
    LET s == SliceLast(productId, SeedChars)
    IN  Len(s) < SeedChars \/ \E k \in 1..Len(s) : ~IsHexDigit(s[k])

WellFormed(r) ==
    /\ r.rating \in 1..5
    /\ r.comment # <<>>
    /\ r.reviewer # <<>>

\* C8: for a productId whose last 8 characters are not a base-16 integer the
\* call runs from a fallback seed: it does not throw, and every record it
\* builds is well-formed.
C8_FallbackSeed ==
    (rpc # "idle" /\ NotHexSeed) =>
        /\ rpc # "threw"
        /\ \A k \in 1..Len(reviews) : WellFormed(reviews[k])

\* C9: a filter mismatch consumes no output slot: the slots used so far are
\* exactly the records built so far.
C9_MismatchKeepsSlot == rpc \in {"loop", "returned"} => i = Len(reviews)

\* C10: the record at 0-based position k has identifier
\* review_<productId>_k.
C10_IdsConsecutive ==
    \A k \in 1..Len(reviews) :
        reviews[k].id = [productId |-> productId, index |-> k - 1]

\* The seed parsed from the productId is an integer in 0 .. 2^32-1.
SeedInRange == ~SeedOf(productId).nan /\ ~SeedOf(productId).neg

\* (x * 1103515245 + 12345) mod 2^31 in integer arithmetic, 0 <= x < 2^32.
ExactLcgStep(x) == MaskInt31(FALSE, BigAddSmall(BigMul(x.hi, x.lo), LcgIncrement))

\* C11: every advance of the generator state (after a record and after a
\* filter mismatch), from a state reached from a seed in 0 .. 2^32-1, sets the
\* state to exactly (state * 1103515245 + 12345) mod 2^31.
C11_ExactAdvance ==
    [][(rpc = "loop" /\ i' = i + 1 /\ SeedInRange)
          => randomIndex' = ExactLcgStep(randomIndex)]_vars

\* The rating the cumulative weights 5, 15, 30, 60, 100 give p.
ExpectedRating(p) ==
    IF p <= 5 THEN 1
    ELSE IF p <= 15 THEN 2
    ELSE IF p <= 30 THEN 3
    ELSE IF p <= 60 THEN 4
    ELSE 5

\* x mod 100 for a non-negative integer x = hi * 2^16 + lo.
Percent(x) == (x.hi * 36 + x.lo) % 100

\* C12 (specification SpecSeeds): for a non-negative integer state the
\* rating computed from p = state mod 100 is 1 for p in 0..5, 2 for 6..15,
\* 3 for 16..30, 4 for 31..60 and 5 for 61..99, and the first record of an
\* unfiltered call carries the rating of the seed.
C12_RatingByCumulativeWeight ==
    /\ (rpc = "loop" /\ ~randomIndex.nan /\ ~randomIndex.neg) =>
          /\ RatingOf(randomIndex) = ExpectedRating(Percent(randomIndex))
          /\ RatingOf(randomIndex) \in 1..5
    /\ (rpc # "idle" /\ filterRating = NoFilter /\ Len(reviews) >= 1) =>
          reviews[1].rating = ExpectedRating(Percent(SeedOf(productId)))

\* A record built from a seed on the boundary p = 60 of rating 4.
C12_Witness ==
    /\ rpc = "returned"
    /\ filterRating = NoFilter
    /\ Len(reviews) >= 1
    /\ Percent(SeedOf(productId)) = 60
    /\ reviews[1].rating = 4

\* C13 (specification SpecReviewsFair): every call terminates, whatever the
\* seed, the limit and the filter: each attempt (a pass of the loop body)
\* uses up one of the limit iterations, the attempts made never exceed
\* limit, and the call ends by returning or throwing.
C13_Terminates ==
    /\ [][(rpc = "loop" /\ rpc' = "loop") => (i' = i + 1 /\ i' <= limit)]_vars
    /\ [](rpc = "loop" => i <= (IF limit > 0 THEN limit ELSE 0))
    /\ ((rpc = "loop") ~> (rpc \in {"returned", "threw"}))

\* A call whose filter no state satisfies used every attempt and returned.
C13_Witness ==
    /\ rpc = "returned"
    /\ filterRating = <<6>>
    /\ limit >= 2
    /\ i = limit
    /\ reviews = <<>>

\* C14 (specification SpecStock): after any sequence of updateStock,
\* addToStock and removeFromStock calls with integer quantities on a document
\* that started with stock >= 0, the document's stock is >= 0 and its
\* inStock flag equals (stock > 0).
C14_StockNeverNegative ==
    op # "none" => (stock >= 0 /\ inStock = (stock > 0))

\* C15 (specification SpecConcurrent): with writes interleaving the request,
\* the response is still consistent with one state of the collection: the
\* number of products returned is
\* min(limit, max(0, totalProducts - (page - 1) * limit)).
C15_ResponseFromOneState ==
    qpc = "responded" =>
        LET rest == pagination.totalProducts - (PageOf(req) - 1) * LimitOf(req)
        IN  Len(products) = MathMax(0, IF rest < LimitOf(req) THEN rest ELSE LimitOf(req))

====
